---------------------------- MODULE Spec2Model ----------------------------
(***************************************************************************)
(* Model of the leaderboard pages of pso_ta_records:                       *)
(*   src/records/js/app.js      join / sort / render pipeline              *)
(*   src/unnamed/part_000       the same pipeline, the single player       *)
(*                              typeahead page (lines 1-327) and the       *)
(*                              multi-filter page with wireMultiTypeahead  *)
(*                              and filterRecords (lines 329-780)          *)
(*                                                                         *)
(* JavaScript strings are sequences of one-character strings, so that      *)
(* trimming, lower-casing, substring search, escaping and joining are      *)
(* computed and not assumed.                                               *)
(***************************************************************************)
EXTENDS Integers, Sequences, FiniteSets, TLC

VARIABLES
  records,        \* records.json, as loaded
  quests,         \* quests.json
  playerRecords,  \* player_records.json
  players,        \* players.json
  items,          \* items[w]: the typeahead items of widget w, sorted by label
  page,           \* which script runs: "single" (part_000:201-327), "multi" (part_000:656-780)
  selected,       \* selected[w]: the Set behind widget w, in insertion order
  inputValue,     \* inputValue[w]: inputEl.value
  suggestions,    \* suggestions[w]: the suggestion divs shown (<<>> = hidden)
  chips,          \* chips[w]: the chips shown in chipsEl
  metaVal, countVal, pbVal,   \* metaSelect.value, countSelect.value, pbSelect.value
  playerSelectValue,          \* playerSelect.value of the dropdown page (<<>> = all)
  filtered,       \* the last result of the filter function
  joinedRows,     \* renderGroupedTable's joinedRows array after its in-place sort
  tbodyRows,      \* renderGroupedTable's tbodyRows
  statusText,     \* statusEl.textContent, as a structure
  call,           \* the function or listener that ran last (with its arguments in
                  \* SpecFilter and SpecRender)
  fetchState,     \* fetchState[f]: where the loadJSON call for dataset f stands
  pc,             \* where the page script stands: "await", "ready" or "failed"
  outputError     \* outputEl.textContent after a failure: the error, <<>> when none

vars == << records, quests, playerRecords, players, items, page, selected, inputValue,
           suggestions, chips, metaVal, countVal, pbVal, playerSelectValue, filtered, joinedRows,
           tbodyRows, statusText, call, fetchState, pc, outputError >>

dataVars == << records, quests, playerRecords, players, items >>
uiVars == << page, selected, inputValue, suggestions, chips, metaVal, countVal, pbVal,
            playerSelectValue >>
outVars == << filtered, joinedRows, tbodyRows, statusText >>
loadVars == << fetchState, pc, outputError >>
\* What no listener of the typeahead pages writes.
pageVars == << fetchState, pc, outputError, records, quests, playerRecords, players, items,
              page, playerSelectValue >>

-----------------------------------------------------------------------------
(* Strings                                                                 *)

Range(s) == { s[i] : i \in DOMAIN s }

\* The upper-case letters of the model alphabet and their lower-case forms.
UpperChars == << "A", "B", "F", "H", "O", "P", "S", "T", "U" >>
LowerChars == << "a", "b", "f", "h", "o", "p", "s", "t", "u" >>

LowerOf ==
  [ c \in Range(UpperChars) |->
      LowerChars[CHOOSE i \in DOMAIN UpperChars : UpperChars[i] = c] ]

toLowerCaseChar(c) == IF c \in DOMAIN LowerOf THEN LowerOf[c] ELSE c

toLowerCase(s) == [ i \in DOMAIN s |-> toLowerCaseChar(s[i]) ]

IsSpace(c) == c = " "

RECURSIVE trimStart(_)
trimStart(s) ==
  IF s # <<>> /\ IsSpace(Head(s)) THEN trimStart(Tail(s)) ELSE s

RECURSIVE trimEnd(_)
trimEnd(s) ==
  IF s # <<>> /\ IsSpace(s[Len(s)]) THEN trimEnd(SubSeq(s, 1, Len(s) - 1)) ELSE s

trim(s) == trimEnd(trimStart(s))

\* String.prototype.includes
includes(s, q) ==
  \E i \in 1..(Len(s) - Len(q) + 1) : SubSeq(s, i, i + Len(q) - 1) = q

startsWith(s, q) == Len(q) <= Len(s) /\ SubSeq(s, 1, Len(q)) = q

\* String(n) for an integer n.
RECURSIVE digitsOf(_)
digitsOf(n) ==
  LET d == << "0", "1", "2", "3", "4", "5", "6", "7", "8", "9" >>[(n % 10) + 1]
  IN IF n < 10 THEN << d >> ELSE Append(digitsOf(n \div 10), d)

String(n) == IF n < 0 THEN << "-" >> \o digitsOf(0 - n) ELSE digitsOf(n)

\* Array.prototype.join
RECURSIVE join(_, _)
join(parts, sep) ==
  IF parts = <<>> THEN <<>>
  ELSE IF Len(parts) = 1 THEN parts[1]
  ELSE parts[1] \o sep \o join(Tail(parts), sep)

\* String.prototype.replaceAll for a one-character pattern.
RECURSIVE replaceAll(_, _, _)
replaceAll(s, c, r) ==
  IF s = <<>> THEN <<>>
  ELSE (IF Head(s) = c THEN r ELSE << Head(s) >>) \o replaceAll(Tail(s), c, r)

\* A padStart that pads nothing.
padStartNone(s) == s

\* String.prototype.padStart(2, "0")
padStart2(s) == IF Len(s) < 2 THEN << "0" >> \o s ELSE s

(* String.prototype.localeCompare, as the root collation orders the model  *)
(* alphabet: white space and punctuation, then digits, then letters; the   *)
(* letters compare without case first, and lower case sorts before upper   *)
(* case only between strings that are otherwise equal.                     *)
CollationOrder ==
  << " ", "'", "-", "(", ")", "&", "|", "<", ">", ":", "/", ".",
     "0", "1", "2", "3", "4", "5", "6", "7", "8", "9",
     "a", "b", "c", "d", "e", "f", "h", "i", "k", "l", "m", "n", "o", "p",
     "q", "r", "s", "t", "u", "w", "y", "z" >>

WeightOf ==
  [ c \in Range(CollationOrder) |->
      CHOOSE i \in DOMAIN CollationOrder : CollationOrder[i] = c ]

primaryWeight(c) ==
  LET l == toLowerCaseChar(c)
  IN IF l \in DOMAIN WeightOf THEN WeightOf[l] ELSE Len(CollationOrder) + 1

caseWeight(c) == IF toLowerCaseChar(c) = c THEN 0 ELSE 1

RECURSIVE compareWeights(_, _)
compareWeights(a, b) ==
  IF a = <<>> THEN (IF b = <<>> THEN 0 ELSE 0 - 1)
  ELSE IF b = <<>> THEN 1
  ELSE IF Head(a) # Head(b) THEN (IF Head(a) < Head(b) THEN 0 - 1 ELSE 1)
  ELSE compareWeights(Tail(a), Tail(b))

localeCompare(a, b) ==
  LET p == compareWeights([ i \in DOMAIN a |-> primaryWeight(a[i]) ],
                          [ i \in DOMAIN b |-> primaryWeight(b[i]) ])
  IN IF p # 0 THEN p
     ELSE compareWeights([ i \in DOMAIN a |-> caseWeight(a[i]) ],
                         [ i \in DOMAIN b |-> caseWeight(b[i]) ])

\* Array.prototype.sort with a comparator: a stable sort (insertion sort, each
\* element going after the last one it does not precede).
insertSorted(x, s, cmp(_, _)) ==
  LET notBefore == { j \in DOMAIN s : cmp(x, s[j]) >= 0 }
      p == IF notBefore = {} THEN 0
           ELSE CHOOSE j \in notBefore : \A k \in notBefore : k <= j
  IN SubSeq(s, 1, p) \o << x >> \o SubSeq(s, p + 1, Len(s))

sort(s, cmp(_, _)) ==
  LET sorted[n \in 0..Len(s)] ==
        IF n = 0 THEN <<>> ELSE insertSorted(s[n], sorted[n - 1], cmp)
  IN sorted[Len(s)]

\* Array.prototype.filter
filter(s, keep(_)) == SelectSeq(s, keep)

\* normalize: (s ?? "").toString().trim().toLowerCase()
normalize(s) == toLowerCase(trim(s))

-----------------------------------------------------------------------------
(* Values that may be undefined (a failed Map.get, a null player-record)   *)

Undefined == [ def |-> FALSE, s |-> <<>> ]
Defined(s) == [ def |-> TRUE, s |-> s ]
\* o ?? d
orElse(o, d) == IF o.def THEN o.s ELSE d

\* null is <<>>, a value v is << v >>.
Null == <<>>
Some(v) == << v >>

-----------------------------------------------------------------------------
(* The pure helpers of the pipeline                                        *)

\* buildIdMap: a Map from id to item, the last item of an id winning.
buildIdMap(its) ==
  [ k \in { its[i].id : i \in DOMAIN its } |->
      its[CHOOSE i \in DOMAIN its :
            /\ its[i].id = k
            /\ \A j \in DOMAIN its : its[j].id = k => j <= i] ]

\* m.get(k)?.name
nameIn(m, k) == IF k \in DOMAIN m THEN Defined(m[k].name) ELSE Undefined

Amp  == << "&", "a", "m", "p", ";" >>
Lt   == << "&", "l", "t", ";" >>
Gt   == << "&", "g", "t", ";" >>
Quot == << "&", "q", "u", "o", "t", ";" >>
Apos == << "&", "#", "3", "9", ";" >>

\* esc with the ampersand replaced last.
escAmpLast(v) ==
  replaceAll(replaceAll(replaceAll(replaceAll(replaceAll(v,
    "<", Lt), ">", Gt), "\"", Quot), "'", Apos), "&", Amp)

esc(v) ==
  replaceAll(replaceAll(replaceAll(replaceAll(replaceAll(v,
    "&", Amp), "<", Lt), ">", Gt), "\"", Quot), "'", Apos)

(* The values of Number(seconds): a finite number (an integer here), or    *)
(* NaN, Infinity, -Infinity.                                                *)
Finite(n) == [ finite |-> TRUE, n |-> n ]
NonFinite == { [ finite |-> FALSE, is |-> k ] : k \in { "NaN", "Infinity", "-Infinity" } }

\* formatTime, seconds being the value of Number(seconds).
formatTime(seconds) ==
  IF ~seconds.finite THEN <<>>
  ELSE
    LET n == seconds.n
        abs == IF n < 0 THEN 0 - n ELSE n
        m == abs \div 60
        s == abs % 60
        ss == padStart2(String(s))
    IN IF n < 0
         THEN String(m) \o << "'" >> \o ss
                \o << " ", "R", "e", "m", "a", "i", "n", "i", "n", "g" >>
         ELSE String(m) \o << "'" >> \o ss

UnknownQuest ==
  << "(", "u", "n", "k", "n", "o", "w", "n", " ", "q", "u", "e", "s", "t", ")" >>
NoneFound ==
  << "(", "n", "o", "n", "e", " ", "f", "o", "u", "n", "d", ")" >>
unknownPlayer(player_id) ==
  << "(", "u", "n", "k", "n", "o", "w", "n", " ", "p", "l", "a", "y", "e", "r", " " >>
    \o String(player_id) \o << ")" >>

groupKey(record, questName) ==
  join(<< orElse(questName, UnknownQuest),
          record.meta,
          record.category,
          IF record.pb THEN << "P", "B" >> ELSE << "N", "o", "P", "B" >> >>,
       << "|", "|" >>)

\* "--" stands for the em dash of the label.
groupLabel(record, questName) ==
  LET pbText == IF record.pb THEN << "P", "B" >> ELSE << "N", "o", "-", "P", "B" >>
  IN join(<< orElse(questName, UnknownQuest), record.category, record.meta, pbText >>,
          << " ", "--", " " >>)

-----------------------------------------------------------------------------
(* renderGroupedTable                                                       *)

\* limitN ? records.slice(0, limitN) : records   (null and 0 are both 0 here)
NoLimit == 0
limitRecords(recs, limitN) ==
  IF limitN = 0 THEN recs
  ELSE IF limitN > 0
         THEN SubSeq(recs, 1, IF limitN < Len(recs) THEN limitN ELSE Len(recs))
         ELSE SubSeq(recs, 1, Len(recs) + limitN)

comparePlayerRecordIds(a, b) == a.id - b.id

\* playerRecords.filter((pr) => pr.record_id === record.id).sort((a, b) => a.id - b.id)
prsOfRecordByPrId(record, prs) ==
  LET isOfRecord(pr) == pr.id = record.id
  IN sort(filter(prs, isOfRecord), comparePlayerRecordIds)

prsOfRecord(record, prs) ==
  LET isOfRecord(pr) == pr.record_id = record.id
  IN sort(filter(prs, isOfRecord), comparePlayerRecordIds)

\* The rows one record contributes to joinedRows.
rowsOfRecordSkipEmpty(record, questById, prs, playerById) ==
  LET questName == nameIn(questById, record.quest_id)
      prsForRecord == prsOfRecord(record, prs)
  IN [ i \in DOMAIN prsForRecord |->
         LET pr == prsForRecord[i]
         IN [ record |-> record, questName |-> questName, pr |-> Some(pr),
              playerName |-> orElse(nameIn(playerById, pr.player_id),
                                    unknownPlayer(pr.player_id)),
              cls |-> pr.pso_class, pov |-> pr.pov ] ]

rowsOfRecord(record, questById, prs, playerById) ==
  LET questName == nameIn(questById, record.quest_id)
      prsForRecord == prsOfRecord(record, prs)
  IN IF Len(prsForRecord) = 0
       THEN << [ record |-> record, questName |-> questName, pr |-> Null,
                 playerName |-> NoneFound, cls |-> <<>>, pov |-> <<>> ] >>
       ELSE [ i \in DOMAIN prsForRecord |->
                LET pr == prsForRecord[i]
                IN [ record |-> record, questName |-> questName, pr |-> Some(pr),
                     playerName |-> orElse(nameIn(playerById, pr.player_id),
                                           unknownPlayer(pr.player_id)),
                     cls |-> pr.pso_class, pov |-> pr.pov ] ]

RECURSIVE joinRows(_, _, _, _)
joinRows(recs, questById, prs, playerById) ==
  IF recs = <<>> THEN <<>>
  ELSE rowsOfRecord(Head(recs), questById, prs, playerById)
         \o joinRows(Tail(recs), questById, prs, playerById)

(* A JSON null in the place of a record id: the ids of the datasets are     *)
(* numbers from 0 up, and null is told apart from each of them.             *)
JsonNull == 0 - 1

\* The number an id stands for in a subtraction: null counts as 0.
toNumber(id) == IF id = JsonNull THEN 0 ELSE id

\* a.pr?.id ?? 0
prIdOf(row) == IF row.pr = Null THEN 0 ELSE row.pr[1].id

\* The comparator with the time compared before the rank.
compareRowsTimeFirst(a, b) ==
  LET ka == groupKey(a.record, a.questName)
      kb == groupKey(b.record, b.questName)
  IN IF ka # kb THEN localeCompare(ka, kb)
     ELSE IF a.record.id # b.record.id
       THEN IF a.record.time # b.record.time THEN a.record.time - b.record.time
            ELSE IF a.record.rank # b.record.rank THEN a.record.rank - b.record.rank
            ELSE toNumber(a.record.id) - toNumber(b.record.id)
     ELSE IF prIdOf(a) # prIdOf(b) THEN prIdOf(a) - prIdOf(b)
     ELSE localeCompare(a.playerName, b.playerName)

\* The comparator without the record id as the last tie-break.
compareRowsNoIdTieBreak(a, b) ==
  LET ka == groupKey(a.record, a.questName)
      kb == groupKey(b.record, b.questName)
  IN IF ka # kb THEN localeCompare(ka, kb)
     ELSE IF a.record.id # b.record.id
       THEN IF a.record.rank # b.record.rank THEN a.record.rank - b.record.rank
            ELSE a.record.time - b.record.time
     ELSE IF prIdOf(a) # prIdOf(b) THEN prIdOf(a) - prIdOf(b)
     ELSE localeCompare(a.playerName, b.playerName)

\* The comparator without the group key.
compareRowsNoGroup(a, b) ==
  IF a.record.id # b.record.id
    THEN IF a.record.rank # b.record.rank THEN a.record.rank - b.record.rank
         ELSE IF a.record.time # b.record.time THEN a.record.time - b.record.time
         ELSE toNumber(a.record.id) - toNumber(b.record.id)
  ELSE IF prIdOf(a) # prIdOf(b) THEN prIdOf(a) - prIdOf(b)
  ELSE localeCompare(a.playerName, b.playerName)

\* The comparator of joinedRows.sort.
compareRows(a, b) ==
  LET ka == groupKey(a.record, a.questName)
      kb == groupKey(b.record, b.questName)
  IN IF ka # kb THEN localeCompare(ka, kb)
     ELSE IF a.record.id # b.record.id
       THEN IF a.record.rank # b.record.rank THEN a.record.rank - b.record.rank
            ELSE IF a.record.time # b.record.time THEN a.record.time - b.record.time
            ELSE toNumber(a.record.id) - toNumber(b.record.id)
     ELSE IF prIdOf(a) # prIdOf(b) THEN prIdOf(a) - prIdOf(b)
     ELSE localeCompare(a.playerName, b.playerName)

sortRows(rows) == sort(rows, compareRows)

NoLink == [ link |-> FALSE, href |-> <<>>, text |-> <<>> ]

\* /^https?:\/\//i.test(pov)
isHttpUrl(pov) ==
  \/ startsWith(toLowerCase(pov), << "h", "t", "t", "p", ":", "/", "/" >>)
  \/ startsWith(toLowerCase(pov), << "h", "t", "t", "p", "s", ":", "/", "/" >>)

povHTML(pov) ==
  IF pov # <<>> /\ isHttpUrl(pov)
    THEN [ link |-> TRUE, href |-> esc(pov), text |-> esc(pov) ]
    ELSE [ link |-> FALSE, href |-> <<>>, text |-> esc(pov) ]

markerRow(kind, cells) == [ kind |-> kind, cells |-> cells, pov |-> NoLink ]

\* The <tr> of one joined row: the eight escaped cells and the POV cell.
dataRow(row, isFirstRowForThisRecord) ==
  LET record == row.record
      pbText == IF record.pb THEN << "P", "B" >> ELSE << "N", "o", "-", "P", "B" >>
      first == isFirstRowForThisRecord
  IN [ kind |-> "row",
       cells |-> << esc(IF first THEN orElse(row.questName, UnknownQuest) ELSE <<>>),
                    esc(IF first THEN record.meta ELSE <<>>),
                    esc(IF first THEN record.category ELSE <<>>),
                    esc(IF first THEN pbText ELSE <<>>),
                    esc(IF first THEN formatTime(Finite(record.time)) ELSE <<>>),
                    esc(IF first THEN String(record.rank) ELSE <<>>),
                    esc(row.playerName),
                    esc(row.cls) >>,
       pov |-> povHTML(row.pov) ]

(* The loop over the sorted rows.  labelled: the page renders a group-label *)
(* row before the group divider (app.js:117-126, part_000:113-122);         *)
(* otherwise it renders the divider alone and a thin entry divider between  *)
(* the records of a group (part_000:444-459).                               *)
RECURSIVE bodyRows(_, _, _, _)
bodyRows(rows, lastGroup, lastRecordIdWithinGroup, labelled) ==
  IF rows = <<>> THEN <<>>
  ELSE
    LET row == Head(rows)
        gk == groupKey(row.record, row.questName)
        newGroup == Some(gk) # lastGroup
        groupRows ==
          IF ~newGroup THEN <<>>
          ELSE IF labelled
            THEN << markerRow("group-label", << esc(groupLabel(row.record, row.questName)) >>),
                    markerRow("group-divider", <<>>) >>
            ELSE << markerRow("group-divider", <<>>) >>
        lastRec == IF newGroup THEN JsonNull ELSE lastRecordIdWithinGroup
        isFirstRowForThisRecord == row.record.id # lastRec
        entryRows ==
          IF ~labelled /\ isFirstRowForThisRecord /\ lastRec # JsonNull
            THEN << markerRow("entry-divider", <<>>) >>
            ELSE <<>>
    IN groupRows \o entryRows \o << dataRow(row, isFirstRowForThisRecord) >>
         \o bodyRows(Tail(rows), Some(gk),
                     IF isFirstRowForThisRecord THEN row.record.id ELSE lastRec,
                     labelled)

renderGroupedTable(recs, questById, prs, playerById, limitN, labelled) ==
  LET sel == limitRecords(recs, limitN)
      joined == sortRows(joinRows(sel, questById, prs, playerById))
  IN [ joinedRows |-> joined,
       tbodyRows |-> bodyRows(joined, Null, JsonNull, labelled) ]

-----------------------------------------------------------------------------
(* The datasets                                                             *)

\* Bounds on the lengths of records.json and player_records.json.
MaxRecords == 3
MaxPlayerRecords == 2

Rec(id, quest_id, meta, category, pb, time, rank) ==
  [ id |-> id, quest_id |-> quest_id, meta |-> meta, category |-> category,
    pb |-> pb, time |-> time, rank |-> rank ]

PlayerRec(id, record_id, player_id, pso_class, pov) ==
  [ id |-> id, record_id |-> record_id, player_id |-> player_id,
    pso_class |-> pso_class, pov |-> pov ]

Quests == << [ id |-> 1, name |-> << "T", "o" >> ] >>

Players ==
  << [ id |-> 2, name |-> << "B", "o" >> ],
     [ id |-> 0, name |-> << "A", "l" >> ],
     [ id |-> 1, name |-> << "a", "l", " ", "b" >> ] >>

(* Records of three leaderboard sections (quest 7 is in no quests.json),    *)
(* with ranks and times that collide and that order against each other.    *)
RecordPool ==
  { Rec(0, 1, << "a" >>, << "c" >>, TRUE, 90, 1),
    Rec(1, 1, << "a" >>, << "c" >>, TRUE, 90, 1),
    Rec(1, 7, << "b" >>, << "d" >>, FALSE, 60, 1),
    Rec(2, 1, << "a" >>, << "c" >>, TRUE, 30, 2),
    Rec(2, 1, << "a" >>, << "c" >>, FALSE, 0 - 60, 2),
    Rec(3, 1, << "a" >>, << "c" >>, TRUE, 30, 1) }

\* Participants: player 9 is in no players.json.
PlayerRecordPool ==
  { PlayerRec(id, rid, 0, << "H", "u" >>, << "H", "t", "t", "p", ":", "/", "/", "a" >>)
      : id \in {1}, rid \in {0, 1} }
  \cup
  { PlayerRec(id, rid, 9, << " ", "f", "o" >>, << "<", "b", ">" >>)
      : id \in {2}, rid \in {0, 1} }
  \cup
  { PlayerRec(id, rid, 1, <<>>, <<>>) : id \in {3}, rid \in {0, 2} }

\* The sequences of at most n items of pool, no id twice.
SeqsUpTo(pool, n) ==
  UNION { { s \in [ 1..k -> pool ] :
              \A i, j \in 1..k : i # j => s[i].id # s[j].id } : k \in 0..n }

NoStatus == [ count |-> 0, parts |-> <<>> ]
NoKeys == [ w \in { "player", "class" } |-> <<>> ]

\* The four datasets the page script loads, named by the variable each is bound to.
Files == { "records", "quests", "playerRecords", "players" }

\* A loadJSON promise fulfilled with the parsed dataset.
Fulfilled(value) == [ st |-> "fulfilled", value |-> value ]

\* The page script is past its await: every loadJSON call is fulfilled.
Loaded ==
  /\ fetchState = [ records |-> Fulfilled(records), quests |-> Fulfilled(quests),
                    playerRecords |-> Fulfilled(playerRecords),
                    players |-> Fulfilled(players) ]
  /\ pc = "ready"
  /\ outputError = <<>>

-----------------------------------------------------------------------------
(* SpecRender: renderGroupedTable applied to every dataset of the pools     *)

InitRender ==
  /\ records \in SeqsUpTo(RecordPool, MaxRecords)
  /\ playerRecords \in SeqsUpTo(PlayerRecordPool, MaxPlayerRecords)
  /\ quests = Quests
  /\ players = Players
  /\ items = NoKeys
  /\ page = "none"
  /\ selected = NoKeys /\ inputValue = NoKeys /\ suggestions = NoKeys /\ chips = NoKeys
  /\ metaVal = <<>> /\ countVal = <<>> /\ pbVal = <<>> /\ playerSelectValue = <<>>
  /\ filtered = <<>> /\ joinedRows = <<>> /\ tbodyRows = <<>>
  /\ statusText = NoStatus
  /\ call = [ op |-> "none" ]
  /\ Loaded

\* renderGroupedTable(records, questById, playerRecords, playerById, null)
RenderTable(labelled) ==
  \E t \in { renderGroupedTable(records, buildIdMap(quests), playerRecords,
                                  buildIdMap(players), NoLimit, labelled) } :
     /\ call.op = "none"
     /\ joinedRows' = t.joinedRows
     /\ tbodyRows' = t.tbodyRows
     /\ call' = [ op |-> "renderGroupedTable", labelled |-> labelled ]
     /\ UNCHANGED << loadVars, dataVars, uiVars, filtered, statusText >>

\* app.js:49-158 and part_000:47-153
RenderLabelled == RenderTable(TRUE)
\* part_000:377-489
RenderPivot == RenderTable(FALSE)

NextRender == RenderLabelled \/ RenderPivot

SpecRender == InitRender /\ [][NextRender]_vars

-----------------------------------------------------------------------------
(* Properties of renderGroupedTable (SpecRender)                            *)

Rendered == call.op = "renderGroupedTable"

\* The player-records of record r, and the joined rows made from r.
ParticipantsOf(r) == { i \in DOMAIN playerRecords : playerRecords[i].record_id = r.id }
RowsOf(r) == { j \in DOMAIN joinedRows : joinedRows[j].record.id = r.id }

\* The <tr> rows of tbodyRows that show a joined row, in output order.
IsDataRow(tr) == tr.kind = "row"
DataRows == SelectSeq(tbodyRows, IsDataRow)
\* The position in tbodyRows of the k-th data row.
DataRowAt(k) ==
  CHOOSE p \in DOMAIN tbodyRows :
    /\ tbodyRows[p].kind = "row"
    /\ Cardinality({ q \in 1..p : tbodyRows[q].kind = "row" }) = k

RowKey(j) == groupKey(joinedRows[j].record, joinedRows[j].questName)

(* C2: a record with no player-record of its id gets exactly one joined    *)
(* row, with the participant name "(none found)" and empty class and POV.  *)
C2_PlaceholderRow ==
  Rendered =>
    \A i \in DOMAIN records :
      ParticipantsOf(records[i]) = {} =>
        /\ Cardinality(RowsOf(records[i])) = 1
        /\ \A j \in RowsOf(records[i]) :
             /\ joinedRows[j].record = records[i]
             /\ joinedRows[j].playerName = NoneFound
             /\ joinedRows[j].cls = <<>>
             /\ joinedRows[j].pov = <<>>
             /\ joinedRows[j].pr = Null

C2_Witness ==
  /\ Rendered
  /\ Len(records) >= 2
  /\ \E i \in DOMAIN records : ParticipantsOf(records[i]) = {}
  /\ \E i \in DOMAIN records : ParticipantsOf(records[i]) # {}

(* C3: a record with N >= 1 player-records gets exactly N joined rows, one  *)
(* per participant, each carrying the record itself, and a participant      *)
(* whose player_id is in no player gets "(unknown player <player_id>)".     *)
C3_RowPerParticipant ==
  Rendered =>
    \A i \in DOMAIN records :
      LET R == records[i]
          N == Cardinality(ParticipantsOf(R))
      IN N >= 1 =>
           /\ Cardinality(RowsOf(R)) = N
           /\ \A k \in ParticipantsOf(R) :
                \E j \in RowsOf(R) : joinedRows[j].pr = Some(playerRecords[k])
           /\ \A j \in RowsOf(R) :
                /\ joinedRows[j].record = R
                /\ joinedRows[j].pr # Null
                /\ LET pid == joinedRows[j].pr[1].player_id
                       known == { n \in DOMAIN players : players[n].id = pid }
                   IN IF known = {}
                        THEN joinedRows[j].playerName = unknownPlayer(pid)
                        ELSE \E n \in known : joinedRows[j].playerName = players[n].name

C3_Witness ==
  /\ Rendered
  /\ \E i \in DOMAIN records :
       /\ Cardinality(ParticipantsOf(records[i])) = 2
       /\ \E k \in ParticipantsOf(records[i]) : playerRecords[k].player_id = 9
       /\ \E j \in RowsOf(records[i]) :
            joinedRows[j].playerName =
              << "(", "u", "n", "k", "n", "o", "w", "n", " ", "p", "l", "a", "y", "e", "r",
                 " ", "9", ")" >>

(* C4: the data rows are ordered by group key ascending; within a group    *)
(* the rows of one record are contiguous and the records are ordered by    *)
(* rank, then time, then record id, ascending; within a record the rows    *)
(* are ordered by player-record id ascending.                              *)
C4_RowOrder ==
  Rendered =>
    /\ Len(DataRows) = Len(joinedRows)
    /\ \A j \in DOMAIN joinedRows :
         /\ DataRows[j].cells[7] = esc(joinedRows[j].playerName)
         /\ DataRows[j].cells[8] = esc(joinedRows[j].cls)
    /\ \A i, j \in DOMAIN joinedRows :
         i < j =>
           LET a == joinedRows[i].record
               b == joinedRows[j].record
           IN /\ localeCompare(RowKey(i), RowKey(j)) <= 0
              /\ (RowKey(i) = RowKey(j) /\ a.id # b.id) =>
                   \/ a.rank < b.rank
                   \/ a.rank = b.rank /\ a.time < b.time
                   \/ a.rank = b.rank /\ a.time = b.time /\ a.id < b.id
              /\ a.id = b.id =>
                   /\ prIdOf(joinedRows[i]) < prIdOf(joinedRows[j])
                   /\ \A k \in i..j : joinedRows[k].record.id = a.id

C4_Witness ==
  /\ Rendered
  /\ Len(records) = 3
  /\ \E i, j \in DOMAIN joinedRows :
       /\ i < j
       /\ RowKey(i) = RowKey(j)
       /\ joinedRows[i].record.rank < joinedRows[j].record.rank
       /\ joinedRows[i].record.time > joinedRows[j].record.time
  /\ \E i \in DOMAIN joinedRows :
       /\ i < Len(joinedRows)
       /\ joinedRows[i].record.id = joinedRows[i + 1].record.id
  /\ \E i \in DOMAIN playerRecords :
       /\ i < Len(playerRecords)
       /\ playerRecords[i].id > playerRecords[i + 1].id
       /\ playerRecords[i].record_id = playerRecords[i + 1].record_id

\* The input sequence s in ascending id order.
ById(s) ==
  LET le(a, b) == a.id - b.id IN sort(s, le)

(* C5: with unique record ids and unique player-record ids the output is   *)
(* the same for every order of the records and of the player-records (it   *)
(* is the output for the inputs in id order), and records of one group     *)
(* with the same rank and time appear in ascending record id order.        *)
C5_OrderIndependent ==
  Rendered =>
    /\ LET t == renderGroupedTable(ById(records), buildIdMap(quests),
                                   ById(playerRecords), buildIdMap(players),
                                   NoLimit, call.labelled)
       IN joinedRows = t.joinedRows /\ tbodyRows = t.tbodyRows
    /\ \A i, j \in DOMAIN joinedRows :
         ( /\ i < j
           /\ RowKey(i) = RowKey(j)
           /\ joinedRows[i].record.rank = joinedRows[j].record.rank
           /\ joinedRows[i].record.time = joinedRows[j].record.time )
           => joinedRows[i].record.id <= joinedRows[j].record.id

C5_Witness ==
  /\ Rendered
  /\ \E i, j \in DOMAIN records :
       /\ i < j
       /\ records[i].id > records[j].id
       /\ groupKey(records[i], nameIn(buildIdMap(quests), records[i].quest_id))
            = groupKey(records[j], nameIn(buildIdMap(quests), records[j].quest_id))
       /\ records[i].rank = records[j].rank
       /\ records[i].time = records[j].time
  /\ Len(playerRecords) = 2
  /\ playerRecords[1].id > playerRecords[2].id

(* C6: every joined row is shown under exactly one group, the rows of a    *)
(* group key are one contiguous block, and there is exactly one            *)
(* group-divider per distinct group key, immediately before the first row  *)
(* of its block: a divider precedes a row exactly when the row's group key *)
(* differs from the previous row's.                                        *)
C6_GroupDividers ==
  Rendered =>
    /\ Len(DataRows) = Len(joinedRows)
    /\ \A i, j \in DOMAIN joinedRows :
         (i < j /\ RowKey(i) = RowKey(j)) => \A k \in i..j : RowKey(k) = RowKey(i)
    /\ Cardinality({ p \in DOMAIN tbodyRows : tbodyRows[p].kind = "group-divider" })
         = Cardinality({ RowKey(j) : j \in DOMAIN joinedRows })
    /\ \A k \in DOMAIN joinedRows :
         LET p == DataRowAt(k)
             changed == k = 1 \/ RowKey(k) # RowKey(k - 1)
         IN /\ p > 1
            /\ changed <=> tbodyRows[p - 1].kind = "group-divider"
    /\ \A p \in DOMAIN tbodyRows :
         tbodyRows[p].kind = "group-divider" =>
           p < Len(tbodyRows) /\ tbodyRows[p + 1].kind = "row"

C6_Witness ==
  /\ Rendered
  /\ Len(records) = 3
  /\ RowKey(1) # RowKey(Len(joinedRows))
  /\ groupKey(records[1], nameIn(buildIdMap(quests), records[1].quest_id))
       = groupKey(records[3], nameIn(buildIdMap(quests), records[3].quest_id))
  /\ groupKey(records[1], nameIn(buildIdMap(quests), records[1].quest_id))
       # groupKey(records[2], nameIn(buildIdMap(quests), records[2].quest_id))
  /\ Cardinality({ p \in DOMAIN tbodyRows : tbodyRows[p].kind = "group-divider" }) = 2

-----------------------------------------------------------------------------
(* The filters                                                              *)

\* app.js:171-182: the dropdown page; playerId is playerSelect.value ("" = all).
filterRecordsByPlayer(recs, prs, playerId) ==
  IF playerId = <<>> THEN recs
  ELSE LET recordIds == { prs[i].record_id :
                            i \in { k \in DOMAIN prs : String(prs[k].player_id) = playerId } }
           keep(r) == r.id \in recordIds
       IN filter(recs, keep)

\* part_000:160-168: selectedPlayerIds is a Set of player_id numbers.
filterRecordsByPlayersAny(recs, prs, selectedPlayerIds) ==
  IF selectedPlayerIds = {} THEN recs
  ELSE LET recordIds == { prs[i].record_id :
                            i \in { k \in DOMAIN prs : prs[k].player_id \in selectedPlayerIds } }
           keep(r) == r.id \in recordIds
       IN filter(recs, keep)

\* String(Number(Boolean(r.pb)))
pbString(pb) == IF pb THEN << "1" >> ELSE << "0" >>

\* A filter that wants one participant to match the player and the class.
filterRecordsSameParticipant(recs, prs, selectedPlayerIds, selectedClasses, mVal, cVal, pVal) ==
  LET matches(pr) ==
        /\ selectedPlayerIds # {} => String(pr.player_id) \in selectedPlayerIds
        /\ selectedClasses # {} => normalize(pr.pso_class) \in selectedClasses
      allowed == { prs[i].record_id : i \in { k \in DOMAIN prs : matches(prs[k]) } }
      keep(r) ==
        /\ ~(mVal # <<>> /\ r.meta # mVal)
        /\ ~(cVal # <<>> /\ r.category # cVal)
        /\ ~(pVal # <<>> /\ pbString(r.pb) # pVal)
        /\ (selectedPlayerIds # {} \/ selectedClasses # {}) => r.id \in allowed
  IN filter(recs, keep)

\* part_000:609-639
filterRecords(recs, prs, selectedPlayerIds, selectedClasses, mVal, cVal, pVal) ==
  LET allowedByPlayers ==
        IF selectedPlayerIds # {}
          THEN Some({ prs[i].record_id :
                        i \in { k \in DOMAIN prs :
                                  String(prs[k].player_id) \in selectedPlayerIds } })
          ELSE Null
      allowedByClasses ==
        IF selectedClasses # {}
          THEN Some({ prs[i].record_id :
                        i \in { k \in DOMAIN prs :
                                  normalize(prs[k].pso_class) \in selectedClasses } })
          ELSE Null
      keep(r) ==
        /\ ~(mVal # <<>> /\ r.meta # mVal)
        /\ ~(cVal # <<>> /\ r.category # cVal)
        /\ ~(pVal # <<>> /\ pbString(r.pb) # pVal)
        /\ ~(allowedByPlayers # Null /\ r.id \notin allowedByPlayers[1])
        /\ ~(allowedByClasses # Null /\ r.id \notin allowedByClasses[1])
  IN filter(recs, keep)

-----------------------------------------------------------------------------
(* SpecFilter: the filters applied to every dataset and every selection     *)

\* Bound on the length of records.json in SpecFilter.
MaxFilterRecords == 2

\* What the widgets and dropdowns of the page can hold for the fixtures.
PlayerKeySets == SUBSET { << "0" >>, << "1" >> }
PlayerIdSets == SUBSET { 0, 1 }
ClassKeySets == SUBSET { << "h", "u" >>, << "f", "o" >> }
MetaValues == { <<>>, << "a" >> }
CountValues == { <<>>, << "d" >> }
PbValues == { <<>>, << "1" >>, << "0" >> }

InitFilter ==
  /\ records \in SeqsUpTo(RecordPool, MaxFilterRecords)
  /\ playerRecords \in SeqsUpTo(PlayerRecordPool, MaxPlayerRecords)
  /\ quests = Quests
  /\ players = Players
  /\ items = NoKeys
  /\ page = "none"
  /\ selected = NoKeys /\ inputValue = NoKeys /\ suggestions = NoKeys /\ chips = NoKeys
  /\ metaVal = <<>> /\ countVal = <<>> /\ pbVal = <<>> /\ playerSelectValue = <<>>
  /\ filtered = <<>> /\ joinedRows = <<>> /\ tbodyRows = <<>>
  /\ statusText = NoStatus
  /\ call = [ op |-> "none" ]
  /\ Loaded

ApplyFilterRecords ==
  \E ps \in PlayerKeySets, cs \in ClassKeySets, m \in MetaValues,
     c \in CountValues, pb \in PbValues :
    /\ call.op = "none"
    /\ filtered' = filterRecords(records, playerRecords, ps, cs, m, c, pb)
    /\ call' = [ op |-> "filterRecords", selectedPlayerIds |-> ps,
                 selectedClasses |-> cs, metaVal |-> m, countVal |-> c, pbVal |-> pb ]
    /\ UNCHANGED << loadVars, dataVars, uiVars, joinedRows, tbodyRows, statusText >>

ApplyFilterRecordsByPlayersAny ==
  \E ids \in PlayerIdSets :
    /\ call.op = "none"
    /\ filtered' = filterRecordsByPlayersAny(records, playerRecords, ids)
    /\ call' = [ op |-> "filterRecordsByPlayersAny", selectedPlayerIds |-> ids ]
    /\ UNCHANGED << loadVars, dataVars, uiVars, joinedRows, tbodyRows, statusText >>

NextFilter == ApplyFilterRecords \/ ApplyFilterRecordsByPlayersAny

SpecFilter == InitFilter /\ [][NextFilter]_vars

\* Some participant of record r satisfies P.
SomeParticipant(r, P(_)) ==
  \E i \in DOMAIN playerRecords :
    playerRecords[i].record_id = r.id /\ P(playerRecords[i])

(* C1: the result of filterRecords is exactly the records, in input order,  *)
(* that satisfy every active predicate: meta, category and PB flag equal    *)
(* to the selected values when set, some participant among the selected     *)
(* players when any is selected, and some participant (not necessarily the  *)
(* same) with a normalized class among the selected classes when any is     *)
(* selected; filterRecordsByPlayersAny is the player predicate alone.       *)
C1_FilterExact ==
  /\ call.op = "filterRecords" =>
       LET isPlayer(pr) == String(pr.player_id) \in call.selectedPlayerIds
           isClass(pr) == toLowerCase(trim(pr.pso_class)) \in call.selectedClasses
           passes(r) ==
             /\ call.metaVal = <<>> \/ r.meta = call.metaVal
             /\ call.countVal = <<>> \/ r.category = call.countVal
             /\ call.pbVal = <<>> \/ (r.pb <=> call.pbVal = << "1" >>)
             /\ call.selectedPlayerIds = {} \/ SomeParticipant(r, isPlayer)
             /\ call.selectedClasses = {} \/ SomeParticipant(r, isClass)
       IN filtered = SelectSeq(records, passes)
  /\ call.op = "filterRecordsByPlayersAny" =>
       LET isPlayer(pr) == pr.player_id \in call.selectedPlayerIds
           passes(r) == call.selectedPlayerIds = {} \/ SomeParticipant(r, isPlayer)
       IN filtered = SelectSeq(records, passes)

\* Player "0" and class "fo" are selected, and a record passes on two participants.
C1_Witness ==
  /\ call.op = "filterRecords"
  /\ call.selectedPlayerIds = { << "0" >> }
  /\ call.selectedClasses = { << "f", "o" >> }
  /\ Len(records) = 2
  /\ Len(filtered) = 1
  /\ \A i \in DOMAIN playerRecords :
       playerRecords[i].record_id = filtered[1].id =>
         ~ ( /\ playerRecords[i].player_id = 0
             /\ normalize(playerRecords[i].pso_class) = << "f", "o" >> )

-----------------------------------------------------------------------------
(* The pages: typeahead widgets, chips, dropdowns and render                *)

\* The most selections a widget holds in the model.
MaxSelected == 2

\* The break of the suggestion loop: matches.length >= 10
MaxSuggestions == 10

Widgets == { "player", "class" }
WidgetsOf(pg) ==
  IF pg = "multi" THEN Widgets ELSE IF pg = "single" THEN { "player" } ELSE {}

\* Number(s) for a string of digits.
RECURSIVE Number(_)
Number(s) ==
  IF s = <<>> THEN 0
  ELSE Number(SubSeq(s, 1, Len(s) - 1)) * 10
         + (CHOOSE d \in 0..9 : digitsOf(d) = << s[Len(s)] >>)

\* The value of an attribute written into innerHTML: the parser decodes the
\* character references.
RECURSIVE attributeValue(_)
attributeValue(html) ==
  IF html = <<>> THEN <<>>
  ELSE IF startsWith(html, Amp) THEN << "&" >> \o attributeValue(SubSeq(html, 6, Len(html)))
  ELSE IF startsWith(html, Lt) THEN << "<" >> \o attributeValue(SubSeq(html, 5, Len(html)))
  ELSE IF startsWith(html, Gt) THEN << ">" >> \o attributeValue(SubSeq(html, 5, Len(html)))
  ELSE IF startsWith(html, Quot) THEN << "\"" >> \o attributeValue(SubSeq(html, 7, Len(html)))
  ELSE IF startsWith(html, Apos) THEN << "'" >> \o attributeValue(SubSeq(html, 6, Len(html)))
  ELSE << Head(html) >> \o attributeValue(Tail(html))

compareLabels(a, b) == localeCompare(a.label, b.label)

\* part_000:221-223: playersByName, the key being the numeric id.
playersByName(ps) ==
  sort([ i \in DOMAIN ps |-> [ key |-> ps[i].id, label |-> ps[i].name ] ], compareLabels)

\* part_000:694-696: playerItems, the key being String(p.id).
playerItems(ps) ==
  sort([ i \in DOMAIN ps |-> [ key |-> String(ps[i].id), label |-> ps[i].name ] ],
       compareLabels)

\* part_000:699-703: the Set of normalized, non-empty classes, in insertion order.
RECURSIVE classSet(_)
classSet(prs) ==
  IF prs = <<>> THEN <<>>
  ELSE LET before == classSet(SubSeq(prs, 1, Len(prs) - 1))
           c == normalize(prs[Len(prs)].pso_class)
       IN IF c # <<>> /\ c \notin Range(before) THEN Append(before, c) ELSE before

\* part_000:704-706
classItems(prs) ==
  LET cs == classSet(prs)
  IN sort([ i \in DOMAIN cs |-> [ key |-> cs[i], label |-> cs[i] ] ], compareLabels)

itemsOf(pg, ps, prs) ==
  [ w \in Widgets |->
      IF pg = "multi" THEN (IF w = "player" THEN playerItems(ps) ELSE classItems(prs))
      ELSE IF pg = "single" /\ w = "player" THEN playersByName(ps) ELSE <<>> ]

\* The suggestion loop without its break.
RECURSIVE suggestionLoopNoBreak(_, _, _, _)
suggestionLoopNoBreak(its, selectedSet, q, matches) ==
  IF its = <<>> THEN matches
  ELSE LET it == Head(its)
       IN IF it.key \in selectedSet
            THEN suggestionLoopNoBreak(Tail(its), selectedSet, q, matches)
            ELSE LET m2 == IF includes(normalize(it.label), q)
                             THEN Append(matches, it) ELSE matches
                 IN suggestionLoopNoBreak(Tail(its), selectedSet, q, m2)

\* part_000:552-557: the loop of buildSuggestionList.
RECURSIVE suggestionLoop(_, _, _, _)
suggestionLoop(its, selectedSet, q, matches) ==
  IF its = <<>> THEN matches
  ELSE LET it == Head(its)
       IN IF it.key \in selectedSet
            THEN suggestionLoop(Tail(its), selectedSet, q, matches)
            ELSE LET m2 == IF includes(normalize(it.label), q)
                             THEN Append(matches, it) ELSE matches
                 IN IF Len(m2) >= MaxSuggestions THEN m2
                    ELSE suggestionLoop(Tail(its), selectedSet, q, m2)

(* buildSuggestionList and the parse of its markup by showSuggestions: the  *)
(* suggestion divs, each with its data-key (data-id) attribute value and    *)
(* its label; <<>> when the box is hidden.                                  *)
buildSuggestionList(pg, its, selectedSet, query) ==
  LET q == normalize(query)
      matches == IF q = <<>> THEN <<>> ELSE suggestionLoop(its, selectedSet, q, <<>>)
  IN [ i \in DOMAIN matches |->
         [ attr |-> IF pg = "multi" THEN attributeValue(esc(matches[i].key))
                    ELSE attributeValue(String(matches[i].key)),
           label |-> matches[i].label ] ]

\* part_000:541-546: addKey
addKey(selectedSet, key) ==
  IF key \in Range(selectedSet) THEN selectedSet ELSE Append(selectedSet, key)

\* part_000:241-246: addPlayerById, which returns on a falsy pid
addPlayerById(selectedIds, pid) ==
  IF pid = 0 \/ pid \in Range(selectedIds) THEN selectedIds ELSE Append(selectedIds, pid)

\* The key a click on a suggestion div adds.
clickedKey(pg, div) == IF pg = "multi" THEN div.attr ELSE Number(div.attr)

addTo(pg, selectedSet, key) ==
  IF pg = "multi" THEN addKey(selectedSet, key) ELSE addPlayerById(selectedSet, key)

\* items.find((it) => !selectedSet.has(it.key) && normalize(it.label).includes(q))
bestMatch(its, selectedSet, q) ==
  LET ok == { i \in DOMAIN its :
                its[i].key \notin selectedSet /\ includes(normalize(its[i].label), q) }
  IN IF ok = {} THEN Null
     ELSE Some(its[CHOOSE i \in ok : \A j \in ok : i <= j])

\* selectedSet.clear() in the place of selectedSet.delete(key).
clear(selectedSet, key) == <<>>

\* selectedSet.delete(key)
delete(selectedSet, key) ==
  LET other(k) == k # key IN SelectSeq(selectedSet, other)

\* renderChips: one chip per selected key, in the Set's order.
renderChips(pg, w, its, ps, selectedSet) ==
  [ i \in DOMAIN selectedSet |->
      LET key == selectedSet[i]
          found == { n \in DOMAIN its : its[n].key = key }
          placeholderLabel == IF w = "player" THEN << "P", "l", "a", "y", "e", "r" >>
                              ELSE << "C", "l", "a", "s", "s" >>
      IN [ key |-> key,
           label |->
             IF pg = "multi"
               THEN IF found # {} THEN its[CHOOSE n \in found : \A k \in found : n <= k].label
                    ELSE placeholderLabel \o << " " >> \o key
               ELSE orElse(nameIn(buildIdMap(ps), key),
                           << "P", "l", "a", "y", "e", "r", " " >> \o String(key)) ] ]

\* The names of the status line for the selected players.
selectedNames(pg, ps, selectedSet) ==
  [ i \in DOMAIN selectedSet |->
      IF pg = "multi"
        THEN orElse(nameIn(buildIdMap(ps), Number(selectedSet[i])), selectedSet[i])
        ELSE orElse(nameIn(buildIdMap(ps), selectedSet[i]),
                    << "P", "l", "a", "y", "e", "r", " " >> \o String(selectedSet[i])) ]

\* The status line: the number of records shown and the parts in brackets.
statusOf(pg, ps, n, sel, m, c, pb) ==
  LET part(tag, values) == [ tag |-> tag, values |-> values ]
      names == selectedNames(pg, ps, sel.player)
  IN IF pg = "multi"
       THEN [ count |-> n,
              parts |->
                (IF sel.player # <<>> THEN << part("Players", names) >> ELSE <<>>)
                \o (IF m # <<>> THEN << part("Meta", << m >>) >> ELSE <<>>)
                \o (IF c # <<>> THEN << part("Count", << c >>) >> ELSE <<>>)
                \o (IF pb # <<>>
                      THEN << part("PB", << IF pb = << "1" >> THEN << "P", "B" >>
                                            ELSE << "N", "o", "-", "P", "B" >> >>) >>
                      ELSE <<>>)
                \o (IF sel.class # <<>> THEN << part("Class", sel.class) >> ELSE <<>>) ]
       ELSE [ count |-> n,
              parts |-> IF sel.player # <<>> THEN << part("for", names) >> ELSE <<>> ]

\* render(): part_000:248-259 (single page) and part_000:712-745 (multi page)
render(pg, recs, qs, prs, ps, sel, m, c, pb) ==
  LET f == IF pg = "multi"
             THEN filterRecords(recs, prs, Range(sel.player), Range(sel.class), m, c, pb)
             ELSE filterRecordsByPlayersAny(recs, prs, Range(sel.player))
      t == renderGroupedTable(f, buildIdMap(qs), prs, buildIdMap(ps), NoLimit,
                              pg = "single")
  IN [ filtered |-> f, joinedRows |-> t.joinedRows, tbodyRows |-> t.tbodyRows,
       statusText |-> statusOf(pg, ps, Len(f), sel, m, c, pb) ]

\* app.js:204-216: render of the dropdown page, playerId being playerSelect.value.
renderDropdown(recs, qs, prs, ps, playerId) ==
  LET f == filterRecordsByPlayer(recs, prs, playerId)
      t == renderGroupedTable(f, buildIdMap(qs), prs, buildIdMap(ps), NoLimit, TRUE)
      name == orElse(nameIn(buildIdMap(ps), Number(playerId)),
                     << "p", "l", "a", "y", "e", "r" >>)
  IN [ filtered |-> f, joinedRows |-> t.joinedRows, tbodyRows |-> t.tbodyRows,
       statusText |-> [ count |-> Len(f),
                        parts |-> IF playerId # <<>>
                                    THEN << [ tag |-> "for", values |-> << name >> ] >>
                                    ELSE <<>> ] ]

-----------------------------------------------------------------------------
(* Spec: a page after its datasets have loaded, under the user's events     *)

\* A small dataset: two players whose names match one query, one class.
SmallData ==
  [ records |-> << Rec(0, 1, << "a" >>, << "c" >>, TRUE, 90, 1),
                   Rec(1, 7, << "b" >>, << "d" >>, FALSE, 60, 1),
                   Rec(2, 1, << "a" >>, << "c" >>, FALSE, 0 - 60, 2) >>,
    quests |-> Quests,
    playerRecords |-> << PlayerRec(2, 0, 9, <<>>, <<>>),
                         PlayerRec(1, 0, 0, << "B", "a", " " >>, << "<", "b", ">" >>),
                         PlayerRec(3, 1, 1, << "b", "a" >>, <<>>) >>,
    players |-> << [ id |-> 1, name |-> << "a", "l", " ", "b" >> ],
                   [ id |-> 0, name |-> << "A", "l", " " >> ] >> ]

\* A dataset with more players matching one query than the suggestions show.
ManyPlayers ==
  [ n \in 1..12 |-> [ id |-> 12 - n, name |-> << "a" >> \o String(12 - n) ] ]

LargeData ==
  [ records |-> << Rec(0, 1, << "a" >>, << "c" >>, TRUE, 90, 1) >>,
    quests |-> Quests,
    playerRecords |-> << PlayerRec(1, 0, 3, << "B", "a" >>, <<>>) >>,
    players |-> ManyPlayers ]

\* The page and dataset of a session: the large dataset is loaded by the
\* single page, the small one by both.
Loads ==
  { << "single", SmallData >>, << "single", LargeData >>, << "multi", SmallData >>,
    << "dropdown", SmallData >> }

\* What the user types, and the options the user picks in the dropdowns.
Queries == { <<>>, << " " >>, << " ", "A", " " >>, << "B" >> }

NoSelection == [ w \in Widgets |-> <<>> ]

Init ==
  \E load \in Loads :
   LET pg == load[1]
       d == load[2]
   IN
    /\ records = d.records
    /\ quests = d.quests
    /\ playerRecords = d.playerRecords
    /\ players = d.players
    /\ page = pg
    /\ items = itemsOf(pg, d.players, d.playerRecords)
    /\ selected = NoSelection /\ inputValue = NoKeys /\ suggestions = NoKeys
    /\ chips = NoKeys
    /\ metaVal = <<>> /\ countVal = <<>> /\ pbVal = <<>> /\ playerSelectValue = <<>>
    /\ LET o == IF pg = "dropdown"
                  THEN renderDropdown(d.records, d.quests, d.playerRecords, d.players, <<>>)
                  ELSE render(pg, d.records, d.quests, d.playerRecords, d.players,
                              NoSelection, <<>>, <<>>, <<>>)
       IN /\ filtered = o.filtered
          /\ joinedRows = o.joinedRows
          /\ tbodyRows = o.tbodyRows
          /\ statusText = o.statusText
    /\ call = [ op |-> "none" ]
    /\ Loaded

\* A listener that returns without calling render().
RerenderNever(sel, m, c, pb) == UNCHANGED outVars

\* render() with the selection sel and the dropdown values m, c, pb.
Rerender(sel, m, c, pb) ==
  \E o \in { render(page, records, quests, playerRecords, players, sel, m, c, pb) } :
     /\ filtered' = o.filtered
     /\ joinedRows' = o.joinedRows
     /\ tbodyRows' = o.tbodyRows
     /\ statusText' = o.statusText

\* The document click listeners that leave every box open.
documentClickKeepsOpen(sugg, inside) == sugg

(* The click listeners on document, one per widget: a box stays as it is    *)
(* when the target is the widget's input or lies inside its suggestions     *)
(* element (inside names that widget, "" when there is none), and is        *)
(* hidden otherwise.                                                        *)
documentClick(sugg, inside) ==
  [ v \in Widgets |-> IF v = inside THEN sugg[v] ELSE <<>> ]

\* addKey / addPlayerById, then renderChips() and render() when the key was added.
Commit(w, sel2) ==
  /\ selected' = [ selected EXCEPT ![w] = sel2 ]
  /\ IF sel2 # selected[w]
       THEN /\ chips' = [ chips EXCEPT
                            ![w] = renderChips(page, w, items[w], players, sel2) ]
            /\ Rerender([ selected EXCEPT ![w] = sel2 ], metaVal, countVal, pbVal)
       ELSE UNCHANGED << chips, outVars >>

\* The input listener: part_000:280-283, 566-568
InputChange(w, q) ==
  /\ w \in WidgetsOf(page)
  /\ q # inputValue[w]
  /\ inputValue' = [ inputValue EXCEPT ![w] = q ]
  /\ suggestions' = [ suggestions EXCEPT
                        ![w] = buildSuggestionList(page, items[w], Range(selected[w]), q) ]
  /\ call' = [ op |-> "input" ]
  /\ UNCHANGED << pageVars, selected, chips, metaVal, countVal, pbVal, outVars >>

(* The click listener of the suggestions element, on the i-th suggestion    *)
(* (part_000:286-294, 570-578), then the document listeners: the clicked    *)
(* div is detached by then, so every box is hidden.                         *)
ClickSuggestion(w, i) ==
  /\ w \in WidgetsOf(page)
  /\ i \in DOMAIN suggestions[w]
  /\ Len(selected[w]) < MaxSelected
  /\ Commit(w, addTo(page, selected[w], clickedKey(page, suggestions[w][i])))
  /\ inputValue' = [ inputValue EXCEPT ![w] = <<>> ]
  /\ suggestions' = documentClick([ suggestions EXCEPT ![w] = <<>> ], "")
  /\ call' = [ op |-> "clickSuggestion" ]
  /\ UNCHANGED << pageVars, metaVal, countVal, pbVal >>

\* The keydown listener, key Enter: part_000:297-308, 580-591
KeydownEnter(w) ==
  /\ w \in WidgetsOf(page)
  /\ Len(selected[w]) < MaxSelected
  /\ LET q == normalize(inputValue[w])
         best == bestMatch(items[w], Range(selected[w]), q)
     IN IF q = <<>> \/ best = Null
          THEN UNCHANGED << selected, chips, outVars, inputValue, suggestions >>
          ELSE /\ Commit(w, addTo(page, selected[w], best[1].key))
               /\ inputValue' = [ inputValue EXCEPT ![w] = <<>> ]
               /\ suggestions' = [ suggestions EXCEPT ![w] = <<>> ]
  /\ call' = [ op |-> "keydownEnter" ]
  /\ UNCHANGED << pageVars, metaVal, countVal, pbVal >>

\* The keydown listener, key Escape: part_000:309-311, 592-594
KeydownEscape(w) ==
  /\ w \in WidgetsOf(page)
  /\ suggestions' = [ suggestions EXCEPT ![w] = <<>> ]
  /\ call' = [ op |-> "keydownEscape" ]
  /\ UNCHANGED << pageVars, selected, inputValue, chips, metaVal, countVal, pbVal,
                  outVars >>

\* A click outside every input and suggestions element: part_000:315-318, 597-600
ClickOutside ==
  /\ WidgetsOf(page) # {}
  /\ suggestions' = documentClick(suggestions, "")
  /\ call' = [ op |-> "clickOutside" ]
  /\ UNCHANGED << pageVars, selected, inputValue, chips, metaVal, countVal, pbVal,
                  outVars >>

\* A click on the input of w, or inside its suggestions element off every suggestion.
ClickInside(w) ==
  /\ w \in WidgetsOf(page)
  /\ suggestions' = documentClick(suggestions, w)
  /\ call' = [ op |-> "clickInside" ]
  /\ UNCHANGED << pageVars, selected, inputValue, chips, metaVal, countVal, pbVal,
                  outVars >>

(* The click listener of the i-th chip's remove button (part_000:232-236,   *)
(* 532-536), then the document listeners: the button is outside every       *)
(* input and suggestions element.                                           *)
RemoveChip(w, i) ==
  /\ w \in WidgetsOf(page)
  /\ i \in DOMAIN chips[w]
  /\ LET sel2 == delete(selected[w], chips[w][i].key)
     IN /\ selected' = [ selected EXCEPT ![w] = sel2 ]
        /\ chips' = [ chips EXCEPT ![w] = renderChips(page, w, items[w], players, sel2) ]
        /\ Rerender([ selected EXCEPT ![w] = sel2 ], metaVal, countVal, pbVal)
  /\ suggestions' = documentClick(suggestions, "")
  /\ call' = [ op |-> "removeChip" ]
  /\ UNCHANGED << pageVars, inputValue, metaVal, countVal, pbVal >>

\* The option values fillSelect gives a dropdown: part_000:687-691
optionValues(values) == { v \in values : v # <<>> }

\* metaSelect change: part_000:769
MetaChange(v) ==
  /\ page = "multi"
  /\ v # metaVal
  /\ v = <<>> \/ v \in optionValues({ records[i].meta : i \in DOMAIN records })
  /\ metaVal' = v
  /\ Rerender(selected, v, countVal, pbVal)
  /\ call' = [ op |-> "metaChange" ]
  /\ UNCHANGED << pageVars, selected, inputValue, suggestions, chips, countVal,
                  pbVal >>

\* countSelect change: part_000:770
CountChange(v) ==
  /\ page = "multi"
  /\ v # countVal
  /\ v = <<>> \/ v \in optionValues({ records[i].category : i \in DOMAIN records })
  /\ countVal' = v
  /\ Rerender(selected, metaVal, v, pbVal)
  /\ call' = [ op |-> "countChange" ]
  /\ UNCHANGED << pageVars, selected, inputValue, suggestions, chips, metaVal,
                  pbVal >>

\* pbSelect change: part_000:771
PbChange(v) ==
  /\ page = "multi"
  /\ v # pbVal
  /\ pbVal' = v
  /\ Rerender(selected, metaVal, countVal, v)
  /\ call' = [ op |-> "pbChange" ]
  /\ UNCHANGED << pageVars, selected, inputValue, suggestions, chips, metaVal,
                  countVal >>

\* The option values populatePlayerDropdown adds after "All players": app.js:160-169
playerOptions(ps) == { String(ps[i].id) : i \in DOMAIN ps }

\* playerSelect change on the dropdown page: app.js:219
PlayerSelectChange(v) ==
  /\ page = "dropdown"
  /\ v # playerSelectValue
  /\ v = <<>> \/ v \in playerOptions(players)
  /\ playerSelectValue' = v
  /\ \E o \in { renderDropdown(records, quests, playerRecords, players, v) } :
       /\ filtered' = o.filtered
       /\ joinedRows' = o.joinedRows
       /\ tbodyRows' = o.tbodyRows
       /\ statusText' = o.statusText
  /\ call' = [ op |-> "playerSelectChange" ]
  /\ UNCHANGED << loadVars, dataVars, page, selected, inputValue, suggestions, chips,
                  metaVal, countVal, pbVal >>

Next ==
  \/ \E w \in Widgets, q \in Queries : InputChange(w, q)
  \/ \E w \in Widgets, i \in 1..MaxSuggestions : ClickSuggestion(w, i)
  \/ \E w \in Widgets : KeydownEnter(w)
  \/ \E w \in Widgets : KeydownEscape(w)
  \/ ClickOutside
  \/ \E w \in Widgets : ClickInside(w)
  \/ \E w \in Widgets, i \in 1..MaxSelected : RemoveChip(w, i)
  \/ \E v \in MetaValues : MetaChange(v)
  \/ \E v \in CountValues : CountChange(v)
  \/ \E v \in PbValues : PbChange(v)
  \/ \E v \in { <<>> } \cup playerOptions(players) : PlayerSelectChange(v)

Spec == Init /\ [][Next]_vars

-----------------------------------------------------------------------------
(* Properties of the typeahead widgets (Spec)                               *)

\* The text of an item key, as a suggestion's data-key (data-id) carries it.
KeyText(key) == IF page = "multi" THEN key ELSE String(key)

(* The positions in the item list of w of the items a query matches: the    *)
(* key is not selected and the lower-cased label contains the trimmed,      *)
(* lower-cased query; none when the query is empty after trimming.          *)
Matching(w, query) ==
  IF trim(query) = <<>> THEN {}
  ELSE { n \in DOMAIN items[w] :
           /\ items[w][n].key \notin Range(selected[w])
           /\ includes(toLowerCase(items[w][n].label), toLowerCase(trim(query))) }

\* The box of w is open on the matches of what its input holds.
Suggesting(w) == suggestions[w] # <<>>

\* The key is committed in w: selected, shown as a chip, input cleared, box closed.
Committed(w, key) ==
  /\ key \in Range(selected'[w])
  /\ \E n \in DOMAIN chips'[w] : chips'[w][n].key = key
  /\ inputValue'[w] = <<>>
  /\ suggestions'[w] = <<>>

(* C7: whenever suggestions are open, a click on a suggestion adds that     *)
(* suggestion's key to the selection, and Enter with a non-empty query adds *)
(* the key of the first item, in item order, that is not selected and whose *)
(* label contains the query; in both cases the item then appears as a chip, *)
(* the input is cleared and the suggestions are closed. This is stated for  *)
(* every item key of the data, a player id of 0 included.                   *)
C7_CommitAddsKey ==
  [][ \A w \in Widgets :
        /\ \A i \in 1..MaxSuggestions :
             ClickSuggestion(w, i) =>
               \E n \in DOMAIN items[w] :
                 /\ KeyText(items[w][n].key) = suggestions[w][i].attr
                 /\ Committed(w, items[w][n].key)
        /\ (KeydownEnter(w) /\ Suggesting(w) /\ Matching(w, inputValue[w]) # {}) =>
             LET ok == Matching(w, inputValue[w])
                 first == CHOOSE n \in ok : \A k \in ok : n <= k
             IN Committed(w, items[w][first].key)
    ]_vars

(* C7, the state the single page is left in by a click on the suggestion of *)
(* player id 0: the listener ran and nothing is selected, no chip is shown. *)
C7_Witness ==
  /\ call.op = "clickSuggestion"
  /\ page = "single"
  /\ selected.player = <<>>
  /\ chips.player = <<>>
  /\ \E n \in DOMAIN players : players[n].id = 0

(* C8: on every input change the suggestions shown are exactly the first at *)
(* most 10 items, in the label-sorted order of the item list, that are not  *)
(* selected and whose lower-cased label contains the trimmed, lower-cased   *)
(* query; never more than 10 whatever the size of the item list; none for a *)
(* query empty after trimming or without a match.                           *)
C8_SuggestionsShown ==
  [][ \A w \in Widgets, q \in Queries :
        InputChange(w, q) =>
          LET ok == Matching(w, q)
              firsts == { n \in ok : Cardinality({ k \in ok : k < n }) < 10 }
              shown == suggestions'[w]
          IN /\ \A a, b \in DOMAIN items[w] :
                  a < b => localeCompare(items[w][a].label, items[w][b].label) <= 0
             /\ Len(shown) = Cardinality(firsts)
             /\ Len(shown) <= 10
             /\ \A j \in DOMAIN shown :
                  \E n \in firsts :
                    /\ Cardinality({ k \in firsts : k < n }) = j - 1
                    /\ shown[j].attr = KeyText(items[w][n].key)
                    /\ shown[j].label = items[w][n].label
             /\ (trim(q) = <<>> \/ ok = {}) => shown = <<>>
    ]_vars

(* C8, its case: an input change on a list of more than 10 items, a key     *)
(* selected, left exactly 10 suggestions.                                   *)
C8_Witness ==
  /\ call.op = "input"
  /\ Len(items.player) > 10
  /\ selected.player # <<>>
  /\ Len(suggestions.player) = 10

(* C9: from any state, the Escape key in a widget's input closes that       *)
(* widget's suggestions, and a click whose target is neither an input nor   *)
(* inside a suggestions element closes the suggestions of every widget;     *)
(* both leave the selection sets unchanged.                                 *)
C9_EscapeAndOutsideClose ==
  [][ /\ \A w \in Widgets :
           KeydownEscape(w) => suggestions'[w] = <<>> /\ selected' = selected
      /\ ClickOutside =>
           (\A w \in Widgets : suggestions'[w] = <<>>) /\ selected' = selected
    ]_vars

(* C9, its case: after a click outside, the box of a widget is closed while *)
(* its input still holds a query with matches, and its selection is kept.   *)
C9_Witness ==
  /\ call.op = "clickOutside"
  /\ \E w \in WidgetsOf(page) :
       /\ suggestions[w] = <<>>
       /\ selected[w] # <<>>
       /\ buildSuggestionList(page, items[w], Range(selected[w]), inputValue[w]) # <<>>

(* C10: removing a chip deletes exactly that chip's key from the selection  *)
(* (every other selected key stays, in its order; the other widget's        *)
(* selection is untouched), re-renders the chips and the filtered table     *)
(* from the new selection, and leaves no suggestions shown.                 *)
C10_RemoveChip ==
  [][ \A w \in Widgets, i \in 1..MaxSelected :
        RemoveChip(w, i) =>
          LET key == chips[w][i].key
              other(k) == k # key
          IN /\ key \in Range(selected[w])
             /\ selected'[w] = SelectSeq(selected[w], other)
             /\ \A v \in Widgets \ { w } : selected'[v] = selected[v] /\ chips'[v] = chips[v]
             /\ [ n \in DOMAIN chips'[w] |-> chips'[w][n].key ] = selected'[w]
             /\ \E o \in { render(page, records, quests, playerRecords, players,
                                  selected', metaVal, countVal, pbVal) } :
                  /\ filtered' = o.filtered
                  /\ tbodyRows' = o.tbodyRows
                  /\ statusText' = o.statusText
             /\ \A v \in Widgets : suggestions'[v] = <<>>
    ]_vars

(* C10, its case: a chip was removed while another key stays selected and   *)
(* the input holds a query with matches; no suggestions are shown.          *)
C10_Witness ==
  /\ call.op = "removeChip"
  /\ \E w \in WidgetsOf(page) :
       /\ Len(selected[w]) = 1
       /\ Len(chips[w]) = 1
       /\ chips[w][1].key = selected[w][1]
       /\ suggestions[w] = <<>>
       /\ buildSuggestionList(page, items[w], Range(selected[w]), inputValue[w]) # <<>>

(* C16: once initialization has succeeded, after any sequence of UI events   *)
(* the displayed table and the record count of the status line are those of *)
(* the current filter state: the loaded records filtered by the current     *)
(* selected players, selected classes and dropdown values, then rendered;   *)
(* and the chips shown are exactly the keys of the selection, in order.     *)
C16_OutputsCurrent ==
  pc = "ready" =>
    LET isPlayer(pr) ==
          CASE page = "multi" -> String(pr.player_id) \in Range(selected.player)
            [] page = "single" -> pr.player_id \in Range(selected.player)
            [] OTHER -> String(pr.player_id) = playerSelectValue
        isClass(pr) == toLowerCase(trim(pr.pso_class)) \in Range(selected.class)
        anyPlayer == IF page = "dropdown" THEN playerSelectValue = <<>>
                                         ELSE selected.player = <<>>
        passes(r) ==
          /\ anyPlayer \/ SomeParticipant(r, isPlayer)
          /\ page = "multi" =>
               /\ metaVal = <<>> \/ r.meta = metaVal
               /\ countVal = <<>> \/ r.category = countVal
               /\ pbVal = <<>> \/ (r.pb <=> pbVal = << "1" >>)
               /\ selected.class = <<>> \/ SomeParticipant(r, isClass)
        current == SelectSeq(records, passes)
    IN /\ filtered = current
       /\ tbodyRows = renderGroupedTable(current, buildIdMap(quests), playerRecords,
                                         buildIdMap(players), NoLimit,
                                         page # "multi").tbodyRows
       /\ statusText.count = Len(current)
       /\ \A w \in Widgets : [ n \in DOMAIN chips[w] |-> chips[w][n].key ] = selected[w]

\* On the multi page a player, a class and a meta value are set and one record is shown.
C16_Witness ==
  /\ pc = "ready"
  /\ page = "multi"
  /\ selected.player = << << "0" >> >>
  /\ selected.class = << << "b", "a" >> >>
  /\ metaVal = << "a" >>
  /\ Len(chips.player) = 1
  /\ Len(chips.class) = 1
  /\ Len(filtered) = 1
  /\ Len(filtered) < Len(records)

-----------------------------------------------------------------------------
(* SpecLoad: the page script from its start to the initial render or the    *)
(* catch block                                                              *)

\* The three page scripts: app.js, part_000:201-327, part_000:656-780.
Pages == { "dropdown", "single", "multi" }

\* statusEl and outputEl as the document has them before the script writes them.
StaticStatus == [ static |-> TRUE ]
\* statusEl.textContent = "Failed to load data"
FailedStatus == [ text |-> "Failed to load data" ]

\* What the server can answer for a dataset.
Served(f) == { SmallData[f], LargeData[f] }

\* loadJSON: fetch pending, then res.json() pending, then settled.
Fetching == [ st |-> "fetching" ]
Parsing == [ st |-> "parsing" ]
\* reason: "network" (fetch rejects), "status" (!res.ok), "json" (res.json() rejects)
Rejected(reason) == [ st |-> "rejected", reason |-> reason ]

\* A combinator that waits for every promise and ignores the rejections.
PromiseAllSettled(fs) ==
  IF \A f \in Files : fs[f].st \in { "fulfilled", "rejected" } THEN "fulfilled"
  ELSE "pending"

\* Promise.all over the four loadJSON promises.
PromiseAll(fs) ==
  IF \E f \in Files : fs[f].st = "rejected" THEN "rejected"
  ELSE IF \A f \in Files : fs[f].st = "fulfilled" THEN "fulfilled"
  ELSE "pending"

\* The value the await hands to the script for dataset f.
Awaited(fs, f) == IF fs[f].st = "fulfilled" THEN fs[f].value ELSE <<>>

InitLoad ==
  /\ page \in Pages
  /\ fetchState = [ f \in Files |-> Fetching ]
  /\ pc = "await"
  /\ outputError = <<>>
  /\ records = <<>> /\ quests = <<>> /\ playerRecords = <<>> /\ players = <<>>
  /\ items = NoKeys
  /\ selected = NoKeys /\ inputValue = NoKeys /\ suggestions = NoKeys /\ chips = NoKeys
  /\ metaVal = <<>> /\ countVal = <<>> /\ pbVal = <<>> /\ playerSelectValue = <<>>
  /\ filtered = <<>> /\ joinedRows = <<>> /\ tbodyRows = <<>>
  /\ statusText = StaticStatus
  /\ call = [ op |-> "none" ]

\* The body of try after the await, up to the initial render().
InitialRender(fs) ==
  LET recs == Awaited(fs, "records")
      qs == Awaited(fs, "quests")
      prs == Awaited(fs, "playerRecords")
      ps == Awaited(fs, "players")
  IN /\ records' = recs /\ quests' = qs /\ playerRecords' = prs /\ players' = ps
     /\ items' = IF page = "dropdown" THEN NoKeys ELSE itemsOf(page, ps, prs)
     /\ \E o \in { IF page = "dropdown" THEN renderDropdown(recs, qs, prs, ps, <<>>)
                   ELSE render(page, recs, qs, prs, ps, NoSelection, <<>>, <<>>, <<>>) } :
          /\ filtered' = o.filtered
          /\ joinedRows' = o.joinedRows
          /\ tbodyRows' = o.tbodyRows
          /\ statusText' = o.statusText
     /\ pc' = "ready"
     /\ UNCHANGED outputError

\* The catch block, err being the rejection of loadJSON(f).
Catch(fs, f) ==
  /\ statusText' = FailedStatus
  /\ outputError' = << [ file |-> f, reason |-> fs[f].reason ] >>
  /\ pc' = "failed"
  /\ UNCHANGED << dataVars, filtered, joinedRows, tbodyRows >>

(* loadJSON(f) moves to state st; when that settles Promise.all, the script  *)
(* resumes in the same turn of the microtask queue: the rest of try or the   *)
(* catch block. A script past its await is not resumed again.                *)
Settle(f, st) ==
  LET fs == [ fetchState EXCEPT ![f] = st ]
  IN /\ fetchState' = fs
     /\ call' = [ op |-> "loadJSON", file |-> f ]
     /\ UNCHANGED uiVars
     /\ IF pc = "await" /\ PromiseAll(fs) = "fulfilled" THEN InitialRender(fs)
        ELSE IF pc = "await" /\ PromiseAll(fs) = "rejected" THEN Catch(fs, f)
        ELSE UNCHANGED << dataVars, outVars, pc, outputError >>

\* fetch(path) rejects: app.js:4
FetchRejects(f) ==
  /\ fetchState[f] = Fetching
  /\ Settle(f, Rejected("network"))

\* fetch(path) resolves with a response that is not ok: app.js:5
ResponseNotOk(f) ==
  /\ fetchState[f] = Fetching
  /\ Settle(f, Rejected("status"))

\* fetch(path) resolves with an ok response; res.json() starts: app.js:6
ResponseOk(f) ==
  /\ fetchState[f] = Fetching
  /\ Settle(f, Parsing)

\* res.json() rejects: app.js:6
JsonRejects(f) ==
  /\ fetchState[f] = Parsing
  /\ Settle(f, Rejected("json"))

\* res.json() resolves with the dataset: app.js:6
JsonResolves(f, value) ==
  /\ fetchState[f] = Parsing
  /\ Settle(f, Fulfilled(value))

NextLoad ==
  \/ \E f \in Files : FetchRejects(f)
  \/ \E f \in Files : ResponseNotOk(f)
  \/ \E f \in Files : ResponseOk(f)
  \/ \E f \in Files : JsonRejects(f)
  \/ \E f \in Files : \E value \in Served(f) : JsonResolves(f, value)

SpecLoad == InitLoad /\ [][NextLoad]_vars

\* The table has been rendered: the script wrote the status line and the rows.
TableRendered == pc = "ready" \/ statusText \notin { StaticStatus, FailedStatus }

\* The page shows the error state and nothing of the datasets.
ErrorState ==
  /\ pc = "failed"
  /\ statusText = FailedStatus
  /\ outputError # <<>>
  /\ filtered = <<>> /\ joinedRows = <<>> /\ tbodyRows = <<>>
  /\ records = <<>> /\ quests = <<>> /\ playerRecords = <<>> /\ players = <<>>

(* C11: in every order of completion and every mix of success and failure   *)
(* of the four fetches, the table is rendered only when all four loadJSON   *)
(* calls are fulfilled; once one has failed the page is in the error state  *)
(* (status "Failed to load data", the error in the output area, no table    *)
(* from the datasets that did load) and stays in it; a settled loadJSON     *)
(* call is never started again.                                             *)
C11_AllOrNothing ==
  /\ [](TableRendered => \A f \in Files : fetchState[f].st = "fulfilled")
  /\ []((\E f \in Files : fetchState[f].st = "rejected") => ErrorState)
  /\ [][ /\ \A f \in Files :
              fetchState[f].st \in { "fulfilled", "rejected" } =>
                fetchState'[f] = fetchState[f]
         /\ pc = "failed" =>
              pc' = "failed" /\ outputError' = outputError /\ statusText' = statusText
     ]_vars

(* C11, its case: one fetch failed on its status after two datasets had     *)
(* loaded, and the last one loaded after the failure.                       *)
C11_Witness ==
  /\ fetchState["players"] = Rejected("status")
  /\ \A f \in Files \ { "players" } : fetchState[f].st = "fulfilled"
  /\ call = [ op |-> "loadJSON", file |-> "records" ]
  /\ ErrorState

-----------------------------------------------------------------------------
(* SpecEsc: renderGroupedTable applied to datasets whose text fields hold   *)
(* every short string over the characters esc replaces                      *)

\* The longest text value drawn.
MaxEscLen == 3

EscAlphabet == { "&", "<", ">", "\"", "'", "a", ";" }

OBrien == << "O", "'", "B", "r", "i", "e", "n", " ", "<", "3", ">" >>

EscInputs ==
  UNION { [ 1..n -> EscAlphabet ] : n \in 0..MaxEscLen } \cup { OBrien }

HttpPrefix == << "h", "t", "t", "p", ":", "/", "/" >>

(* One record of a quest with two participants; the quest name, meta,       *)
(* category, player names, classes and POVs are text values of EscInputs,   *)
(* one POV a link.                                                          *)
InitEsc ==
  \E v \in EscInputs, u \in { << "a" >>, << "&", "<" >>, OBrien } :
    /\ quests = << [ id |-> 1, name |-> v ] >>
    /\ records = << Rec(1, 1, u, v, TRUE, 454, 1) >>
    /\ players = << [ id |-> 1, name |-> v ], [ id |-> 2, name |-> u ] >>
    /\ playerRecords = << PlayerRec(1, 1, 1, v, v),
                          PlayerRec(2, 1, 2, u, HttpPrefix \o v) >>
    /\ items = NoKeys
    /\ page = "none"
    /\ selected = NoKeys /\ inputValue = NoKeys /\ suggestions = NoKeys /\ chips = NoKeys
    /\ metaVal = <<>> /\ countVal = <<>> /\ pbVal = <<>> /\ playerSelectValue = <<>>
    /\ filtered = <<>> /\ joinedRows = <<>> /\ tbodyRows = <<>>
    /\ statusText = NoStatus
    /\ call = [ op |-> "none" ]
    /\ Loaded

SpecEsc == InitEsc /\ [][NextRender]_vars

\* The entity of a character, the character itself when it has none.
EntityOf(c) ==
  CASE c = "&" -> Amp
    [] c = "<" -> Lt
    [] c = ">" -> Gt
    [] c = "\"" -> Quot
    [] c = "'" -> Apos
    [] OTHER -> << c >>

\* The text with each character replaced by its entity, left to right.
RECURSIVE Escaped(_)
Escaped(text) ==
  IF text = <<>> THEN <<>> ELSE EntityOf(Head(text)) \o Escaped(Tail(text))

\* No markup character is left, and every ampersand starts an entity.
MarkupFree(out) ==
  /\ \A i \in DOMAIN out : out[i] \notin { "<", ">", "\"", "'" }
  /\ \A i \in DOMAIN out :
       out[i] = "&" =>
         \E e \in { Amp, Lt, Gt, Quot, Apos } : SubSeq(out, i, i + Len(e) - 1) = e

(* C12: every text value renderGroupedTable places in a cell (quest name,   *)
(* group label, meta, category, player name, class, POV text and href) is   *)
(* the value with each of & < > " ' replaced by its entity, the ampersand   *)
(* first: the cell holds none of < > " ' and each & in it starts one of the *)
(* five entities; the player name O'Brien <3> is shown as                   *)
(* O&#39;Brien &lt;3&gt;.                                                   *)
C12_CellsEscaped ==
  Rendered =>
    /\ \A p \in DOMAIN tbodyRows :
         /\ \A c \in DOMAIN tbodyRows[p].cells : MarkupFree(tbodyRows[p].cells[c])
         /\ MarkupFree(tbodyRows[p].pov.text)
         /\ MarkupFree(tbodyRows[p].pov.href)
         /\ tbodyRows[p].kind = "group-label" =>
              \E j \in DOMAIN joinedRows :
                tbodyRows[p].cells
                  = << Escaped(groupLabel(joinedRows[j].record, joinedRows[j].questName)) >>
    /\ Len(DataRows) = Len(joinedRows)
    /\ \A k \in DOMAIN joinedRows :
         LET tr == DataRows[k]
             row == joinedRows[k]
         IN /\ tr.cells[7] = Escaped(row.playerName)
            /\ tr.cells[8] = Escaped(row.cls)
            /\ tr.pov.text = Escaped(row.pov)
            /\ tr.pov.link => tr.pov.href = Escaped(row.pov)
            /\ tr.cells[1] \in { <<>>, Escaped(orElse(row.questName, UnknownQuest)) }
            /\ tr.cells[2] \in { <<>>, Escaped(row.record.meta) }
            /\ tr.cells[3] \in { <<>>, Escaped(row.record.category) }
            /\ row.playerName = OBrien =>
                 tr.cells[7] = << "O", "&", "#", "3", "9", ";", "B", "r", "i", "e", "n", " ",
                                  "&", "l", "t", ";", "3", "&", "g", "t", ";" >>

(* C12, its case: a rendered table whose text values hold an ampersand      *)
(* before other replaced characters, one POV being a link, and the player   *)
(* name of the example.                                                     *)
C12_Witness ==
  /\ Rendered
  /\ quests[1].name = << "&", "<", "'" >>
  /\ players[2].name = OBrien
  /\ \E p \in DOMAIN tbodyRows : tbodyRows[p].pov.link
  /\ \E p \in DOMAIN tbodyRows : tbodyRows[p].kind = "group-label"

-----------------------------------------------------------------------------
(* SpecTime: formatTime applied to every number of seconds of a range and   *)
(* to the non-finite numbers                                                *)

\* The largest magnitude of seconds drawn.
MaxSeconds == 600

TimeInputs == { Finite(n) : n \in (0 - MaxSeconds)..MaxSeconds } \cup NonFinite

InitTime ==
  /\ records = <<>> /\ quests = <<>> /\ playerRecords = <<>> /\ players = <<>>
  /\ items = NoKeys
  /\ page = "none"
  /\ selected = NoKeys /\ inputValue = NoKeys /\ suggestions = NoKeys /\ chips = NoKeys
  /\ metaVal = <<>> /\ countVal = <<>> /\ pbVal = <<>> /\ playerSelectValue = <<>>
  /\ filtered = <<>> /\ joinedRows = <<>> /\ tbodyRows = <<>>
  /\ statusText = NoStatus
  /\ call = [ op |-> "none" ]
  /\ Loaded

\* formatTime(seconds), its argument and result recorded in call.
FormatTime ==
  \E seconds \in TimeInputs :
    /\ call' = [ op |-> "formatTime", seconds |-> seconds,
                 result |-> formatTime(seconds) ]
    /\ UNCHANGED << loadVars, dataVars, uiVars, outVars >>

NextTime == FormatTime

SpecTime == InitTime /\ [][NextTime]_vars

Digits == { "0", "1", "2", "3", "4", "5", "6", "7", "8", "9" }

\* The text is the decimal numeral of k, without sign or leading zeros.
IsNumeral(text, k) ==
  /\ text # <<>>
  /\ \A i \in DOMAIN text : text[i] \in Digits
  /\ Len(text) > 1 => text[1] # "0"
  /\ Number(text) = k

(* C13: for an integer number of seconds n, formatTime(n) is floor(|n|/60), *)
(* an apostrophe, |n| mod 60 in exactly two digits, then " Remaining"       *)
(* exactly when n is negative; formatTime(454) is 7'34 and formatTime(-60)  *)
(* is 1'00 Remaining; a non-finite number gives the empty string.           *)
C13_FormatTime ==
  call.op = "formatTime" =>
    LET out == call.result
        n == call.seconds.n
        abs == IF n < 0 THEN 0 - n ELSE n
        remaining == << " ", "R", "e", "m", "a", "i", "n", "i", "n", "g" >>
    IN IF ~call.seconds.finite THEN out = <<>>
       ELSE /\ \E i \in DOMAIN out :
                 /\ out[i] = "'"
                 /\ IsNumeral(SubSeq(out, 1, i - 1), abs \div 60)
                 /\ Len(out) >= i + 2
                 /\ out[i + 1] \in Digits /\ out[i + 2] \in Digits
                 /\ Number(SubSeq(out, i + 1, i + 2)) = abs % 60
                 /\ SubSeq(out, i + 3, Len(out)) = (IF n < 0 THEN remaining ELSE <<>>)
            /\ n = 454 => out = << "7", "'", "3", "4" >>
            /\ n = 0 - 60 => out = << "1", "'", "0", "0" >> \o remaining

\* C13, its case: formatTime ran on a negative number whose seconds part needs a pad.
C13_Witness ==
  /\ call.op = "formatTime"
  /\ call.seconds = Finite(0 - 125)
  /\ call.result = << "2", "'", "0", "5", " ", "R", "e", "m", "a", "i", "n", "i", "n", "g" >>

-----------------------------------------------------------------------------
(* SpecMerge: renderGroupedTable applied to datasets in which a record id   *)
(* can be 0 or null                                                         *)

\* Records of two groups; one record has the id 0, one the id null.
MergeRecordPool ==
  { Rec(0, 1, << "a" >>, << "c" >>, TRUE, 90, 1),
    Rec(1, 1, << "a" >>, << "c" >>, TRUE, 90, 1),
    Rec(2, 7, << "b" >>, << "d" >>, FALSE, 60, 1),
    Rec(JsonNull, 1, << "a" >>, << "c" >>, TRUE, 30, 2) }

MergePlayerRecordPool ==
  { PlayerRec(1, 0, 0, << "H", "u" >>, <<>>),
    PlayerRec(2, 0, 1, << "f", "o" >>, <<>>),
    PlayerRec(3, 1, 1, << "f", "o" >>, <<>>),
    PlayerRec(4, JsonNull, 0, << "H", "u" >>, <<>>),
    PlayerRec(5, JsonNull, 1, << "f", "o" >>, <<>>) }

InitMerge ==
  /\ records \in SeqsUpTo(MergeRecordPool, MaxRecords)
  /\ playerRecords \in SeqsUpTo(MergePlayerRecordPool, MaxPlayerRecords)
  /\ quests = Quests
  /\ players = Players
  /\ items = NoKeys
  /\ page = "none"
  /\ selected = NoKeys /\ inputValue = NoKeys /\ suggestions = NoKeys /\ chips = NoKeys
  /\ metaVal = <<>> /\ countVal = <<>> /\ pbVal = <<>> /\ playerSelectValue = <<>>
  /\ filtered = <<>> /\ joinedRows = <<>> /\ tbodyRows = <<>>
  /\ statusText = NoStatus
  /\ call = [ op |-> "none" ]
  /\ Loaded

SpecMerge == InitMerge /\ [][NextRender]_vars

\* The <tr> carries the record-level columns of record r.
CarriesRecord(tr, r) ==
  /\ tr.cells[1] = Escaped(orElse(nameIn(buildIdMap(quests), r.quest_id), UnknownQuest))
  /\ tr.cells[2] = Escaped(r.meta)
  /\ tr.cells[3] = Escaped(r.category)
  /\ tr.cells[4] = (IF r.pb THEN << "P", "B" >> ELSE << "N", "o", "-", "P", "B" >>)
  /\ tr.cells[5] = Escaped(formatTime(Finite(r.time)))
  /\ tr.cells[6] = String(r.rank)

\* The six record-level columns of the <tr> are blank.
BlankRecord(tr) == \A c \in 1..6 : tr.cells[c] = <<>>

\* The output rows of the record r, by position among the data rows.
OutputRowsOf(r) == { k \in DOMAIN joinedRows : joinedRows[k].record = r }

(* C14: in the output of renderGroupedTable every record has rows, its      *)
(* first row in output order carries Quest, Meta, Category, PB, Time and    *)
(* Rank, and each later row of the record has those six columns blank; this *)
(* is stated for every record id of the data.                               *)
C14_FirstRowCarries ==
  Rendered =>
    /\ Len(DataRows) = Len(joinedRows)
    /\ \A i \in DOMAIN records :
         LET r == records[i]
             ks == OutputRowsOf(r)
         IN /\ ks # {}
            /\ \A k \in ks :
                 IF \A j \in ks : k <= j THEN CarriesRecord(DataRows[k], r)
                 ELSE BlankRecord(DataRows[k])

(* C14, the table the code renders for a record of id null with two         *)
(* participants: both of its rows have the record-level columns blank.      *)
C14_Witness ==
  /\ Rendered
  /\ \E i \in DOMAIN records :
       /\ records[i].id = JsonNull
       /\ Cardinality(OutputRowsOf(records[i])) = 2
       /\ \A k \in OutputRowsOf(records[i]) : BlankRecord(DataRows[k])

-----------------------------------------------------------------------------
(* SpecKey: renderGroupedTable applied to two records whose meta and        *)
(* category are short texts that may hold the character of the delimiter    *)

\* The longest meta or category drawn.
MaxKeyLen == 1

KeyTexts == UNION { [ 1..n -> { "a", "|" } ] : n \in 0..MaxKeyLen }

InitKey ==
  \E m1 \in KeyTexts, c1 \in KeyTexts, m2 \in KeyTexts, c2 \in KeyTexts,
     q2 \in { 1, 7 }, pb2 \in BOOLEAN :
    /\ records = << Rec(0, 1, m1, c1, TRUE, 90, 1), Rec(1, q2, m2, c2, pb2, 90, 1) >>
    /\ playerRecords = <<>>
    /\ quests = Quests
    /\ players = Players
    /\ items = NoKeys
    /\ page = "none"
    /\ selected = NoKeys /\ inputValue = NoKeys /\ suggestions = NoKeys /\ chips = NoKeys
    /\ metaVal = <<>> /\ countVal = <<>> /\ pbVal = <<>> /\ playerSelectValue = <<>>
    /\ filtered = <<>> /\ joinedRows = <<>> /\ tbodyRows = <<>>
    /\ statusText = NoStatus
    /\ call = [ op |-> "none" ]
    /\ Loaded

SpecKey == InitKey /\ [][NextRender]_vars

\* The tuple the group key encodes: quest display name, meta, category, PB flag.
KeyTuple(r) ==
  << orElse(nameIn(buildIdMap(quests), r.quest_id), UnknownQuest), r.meta, r.category, r.pb >>

\* The number of leaderboard sections of the rendered table.
Sections == Cardinality({ p \in DOMAIN tbodyRows : tbodyRows[p].kind = "group-divider" })

(* C15: two records get the same group key, and fall in the same section of *)
(* the table, if and only if their quest display name, meta, category and   *)
(* PB flag are all equal.                                                   *)
C15_KeyUnambiguous ==
  Rendered =>
    LET sameKey == groupKey(records[1], nameIn(buildIdMap(quests), records[1].quest_id))
                     = groupKey(records[2], nameIn(buildIdMap(quests), records[2].quest_id))
        sameTuple == KeyTuple(records[1]) = KeyTuple(records[2])
    IN /\ sameKey <=> sameTuple
       /\ Sections = 1 <=> sameTuple

(* C15, the table the code renders for two records of the same quest and PB *)
(* flag whose meta and category differ: one section holds both.             *)
C15_Witness ==
  /\ Rendered
  /\ records[1].quest_id = records[2].quest_id /\ records[1].pb = records[2].pb
  /\ records[1].meta # records[2].meta
  /\ records[1].category # records[2].category
  /\ Sections = 1
  /\ Len(DataRows) = 2

=============================================================================
